---- MODULE Spec2Model ----
(***************************************************************************)
(* State-machine model of src/src/codexmcp/server.py.                      *)
(*                                                                         *)
(*   run_shell_command  the child process, the reader thread read_output,  *)
(*                      the queue and the polling generator (the consumer) *)
(*   codex              the fold over the yielded lines and the result     *)
(*                                                                         *)
(* Python strings are TLA+ strings; every other Python value is a tagged   *)
(* record (None, Str, PyInt, PyList, Dict), a dict being a function from its   *)
(* keys to values.                                                         *)
(***************************************************************************)
EXTENDS Integers, Sequences, FiniteSets, TLC

VARIABLES
    proc,            \* the child: "unspawned", "failed", "running", "exited"
    outOpen,         \* some process still holds the write end of the child's output
    termSent,        \* process.terminate() has been called
    emitted,         \* the raw lines written to the pipe so far
    nread,           \* how many of them read_output has read
    rpc,             \* read_output's position
    output_queue,    \* queue.Queue of Str lines and None
    enqueued,        \* every item ever put on output_queue, in order
    cpc,             \* the generator's position
    yielded,         \* the lines handed to the caller so far
    drainYields,     \* how many of them came from the post-loop drain
    leftBy,          \* how the polling loop was left: "", "sentinel", "timeout"
    reaped,          \* process.wait() has returned
    killed,          \* process.kill() has been called
    joined,          \* thread.join(timeout=5) has returned
    all_messages,    \* codex locals, lines 222-226
    agent_messages,
    success,
    err_message,
    thread_id,
    apc,             \* codex's position: "loop", "returned", "raised"
    result,          \* the dict codex returns
    return_all_messages  \* the parameter of codex, line 167

vars == <<proc, outOpen, termSent, emitted, nread, rpc, output_queue, enqueued, cpc,
          yielded, drainYields, leftBy, reaped, killed, joined, all_messages, agent_messages,
          success, err_message, thread_id, apc, result, return_all_messages>>

childVars == <<proc, outOpen, termSent, emitted, nread, rpc, output_queue, enqueued,
               reaped, killed, joined>>

foldVars == <<all_messages, agent_messages, success, err_message, thread_id>>

-----------------------------------------------------------------------------
(* Bounds of the model.                                                    *)

\* lines the child writes in one run of the pipeline
MaxLines == 3

\* lines of an arbitrary input sequence folded by codex
MaxFold == 3

-----------------------------------------------------------------------------
(* Python values.                                                          *)

None == [t |-> "None"]

Str(s) == [t |-> "str", s |-> s]

PyInt(n) == [t |-> "int", n |-> n]

PyList(xs) == [t |-> "list", xs |-> xs]

Dict(d) == [t |-> "dict", d |-> d]

EmptyDict == Dict([k \in {} |-> None])

\* dict.get(key, default)
Get(v, key, default) == IF key \in DOMAIN v.d THEN v.d[key] ELSE default

Char(s, i) == SubSeq(s, i, i)

\* sub in s, for two strings
Contains(s, sub) ==
    \E i \in 1..(Len(s) - Len(sub) + 1) : SubSeq(s, i, i + Len(sub) - 1) = sub

IsSpace(c) == c \in {" ", "\t", "\n", "\r", "\f"}

IsDigit(c) == c \in {"0", "1", "2", "3", "4", "5", "6", "7", "8", "9"}

\* The first position from i on whose character is not a white space (Len(s) + 1 if none).
RECURSIVE SkipSpaces(_, _)
SkipSpaces(s, i) == IF i <= Len(s) /\ IsSpace(Char(s, i)) THEN SkipSpaces(s, i + 1) ELSE i

\* The last position up to j whose character is not a white space (0 if none).
RECURSIVE SkipSpacesBack(_, _)
SkipSpacesBack(s, j) == IF j >= 1 /\ IsSpace(Char(s, j)) THEN SkipSpacesBack(s, j - 1) ELSE j

\* str.strip(): s without its leading and trailing white space
Strip(s) ==
    LET first == SkipSpaces(s, 1)
        last == SkipSpacesBack(s, Len(s))
    IN  IF first > last THEN "" ELSE SubSeq(s, first, last)

RECURSIVE SkipDigits(_, _)
SkipDigits(s, i) == IF i <= Len(s) /\ IsDigit(Char(s, i)) THEN SkipDigits(s, i + 1) ELSE i

ReconnectingPrefix == "Reconnecting..."

\* a pattern that accepts the bare prefix only
IsReconnectingBare(error_msg) == error_msg = ReconnectingPrefix

\* bool(re.match(r'^Reconnecting\.\.\.\s+\d+/\d+$', error_msg)); $ also matches
\* before one trailing newline.
IsReconnecting(error_msg) ==
    LET n == Len(error_msg)
        a == Len(ReconnectingPrefix) + 1
        b == SkipSpaces(error_msg, a)
        c == SkipDigits(error_msg, b)
        d == SkipDigits(error_msg, c + 1)
    IN  /\ n >= a
        /\ SubSeq(error_msg, 1, a - 1) = ReconnectingPrefix
        /\ b > a
        /\ c > b
        /\ c <= n
        /\ Char(error_msg, c) = "/"
        /\ d > c + 1
        /\ \/ d = n + 1
           \/ d = n /\ Char(error_msg, n) = "\n"

-----------------------------------------------------------------------------
(* Sample lines of the child's output (stripped), and json.loads on them.  *)

DocStarted == "{\"type\":\"thread.started\",\"thread_id\":\"s1\"}"

DocResumed == "{\"type\":\"thread.started\",\"thread_id\":\"s2\"}"

DocNullId == "{\"type\":\"turn.started\",\"thread_id\":null,\"usage\":{}}"

DocEmptyId == "{\"type\":\"thread.started\",\"thread_id\":\"\"}"

DocHello == "{\"type\":\"item.completed\",\"item\":{\"type\":\"agent_message\",\"text\":\"Hello\"}}"

DocWorld == "{\"thread_id\":\"s1\",\"item\":{\"type\":\"agent_message\",\"text\":\" World\"}}"

DocNoText == "{\"type\":\"item.completed\",\"item\":{\"type\":\"agent_message\"}}"

DocReasoning == "{\"type\":\"item.completed\",\"item\":{\"type\":\"reasoning\",\"text\":\"think\"}}"

DocTurnFailed == "{\"type\":\"turn.failed\",\"error\":{\"message\":\"boom\"}}"

DocError == "{\"type\":\"error\",\"message\":\"boom\"}"

DocReconnect == "{\"type\":\"error\",\"message\":\"Reconnecting... 3/10\"}"

DocFailedError == "{\"type\":\"stream_error.failed\",\"message\":\"Reconnecting... 3/10\"}"

DocNearMiss == "{\"type\":\"error\",\"message\":\"Reconnecting...\"}"

DocTurnCompleted == "{\"type\":\"turn.completed\"}"

DocGarbage == "WARN: not json"

DocBlank == ""

DocArray == "[1]"

DocNullItem == "{\"type\":\"item.completed\",\"item\":null}"

DocNumType == "{\"type\":5}"

DocBadError == "{\"type\":\"turn.failed\",\"error\":\"boom\"}"

DocReconnectNullItem == "{\"type\":\"error\",\"message\":\"Reconnecting... 3/10\",\"item\":null}"

DocQuote == "[\"it's\"]"

DocFailedAgent == "{\"type\":\"item.failed\",\"item\":{\"type\":\"agent_message\",\"text\":\"Oops\"}}"

AgentMessage(text) == Dict([type |-> Str("agent_message"), text |-> Str(text)])

\* json.loads(text): [ok |-> TRUE, val |-> the value], or ok = FALSE for json.JSONDecodeError
JsonLoads(text) ==
    LET Ok(v) == [ok |-> TRUE, val |-> v]
    IN  CASE text = DocStarted ->
               Ok(Dict([type |-> Str("thread.started"), thread_id |-> Str("s1")]))
          [] text = DocResumed ->
               Ok(Dict([type |-> Str("thread.started"), thread_id |-> Str("s2")]))
          [] text = DocNullId ->
               Ok(Dict([type |-> Str("turn.started"), thread_id |-> None, usage |-> EmptyDict]))
          [] text = DocEmptyId ->
               Ok(Dict([type |-> Str("thread.started"), thread_id |-> Str("")]))
          [] text = DocHello ->
               Ok(Dict([type |-> Str("item.completed"), item |-> AgentMessage("Hello")]))
          [] text = DocWorld ->
               Ok(Dict([thread_id |-> Str("s1"), item |-> AgentMessage(" World")]))
          [] text = DocNoText ->
               Ok(Dict([type |-> Str("item.completed"),
                        item |-> Dict([type |-> Str("agent_message")])]))
          [] text = DocReasoning ->
               Ok(Dict([type |-> Str("item.completed"),
                        item |-> Dict([type |-> Str("reasoning"), text |-> Str("think")])]))
          [] text = DocTurnFailed ->
               Ok(Dict([type |-> Str("turn.failed"),
                        error |-> Dict([message |-> Str("boom")])]))
          [] text = DocError ->
               Ok(Dict([type |-> Str("error"), message |-> Str("boom")]))
          [] text = DocReconnect ->
               Ok(Dict([type |-> Str("error"), message |-> Str("Reconnecting... 3/10")]))
          [] text = DocFailedError ->
               Ok(Dict([type |-> Str("stream_error.failed"),
                        message |-> Str("Reconnecting... 3/10")]))
          [] text = DocNearMiss ->
               Ok(Dict([type |-> Str("error"), message |-> Str("Reconnecting...")]))
          [] text = DocTurnCompleted ->
               Ok(Dict([type |-> Str("turn.completed")]))
          [] text = DocArray ->
               Ok(PyList(<<PyInt(1)>>))
          [] text = DocNullItem ->
               Ok(Dict([type |-> Str("item.completed"), item |-> None]))
          [] text = DocNumType ->
               Ok(Dict([type |-> PyInt(5)]))
          [] text = DocBadError ->
               Ok(Dict([type |-> Str("turn.failed"), error |-> Str("boom")]))
          [] text = DocReconnectNullItem ->
               Ok(Dict([type |-> Str("error"), message |-> Str("Reconnecting... 3/10"),
                        item |-> None]))
          [] text = DocQuote ->
               Ok(PyList(<<Str("it's")>>))
          [] text = DocFailedAgent ->
               Ok(Dict([type |-> Str("item.failed"), item |-> AgentMessage("Oops")]))
          [] OTHER -> [ok |-> FALSE, val |-> None]

\* The lines an input sequence of the fold is drawn from.
Lines ==
    {DocStarted, DocResumed, DocNullId, DocEmptyId, DocHello, DocWorld, DocNoText,
     DocReasoning, DocTurnFailed, DocError, DocReconnect, DocFailedError, DocNearMiss,
     DocTurnCompleted, DocGarbage, DocBlank, DocArray, DocNullItem, DocNumType,
     DocBadError, DocReconnectNullItem, DocQuote, DocFailedAgent}

\* The raw lines the child of the pipeline writes: text as readline returns it.
RawLines ==
    {DocWorld \o "\n", DocGarbage \o "\n", "  " \o DocTurnCompleted \o " \r\n",
     DocArray \o "\n", "\n"}

-----------------------------------------------------------------------------
(* codex: the body of the loop over the yielded lines, lines 228-259.      *)
(* A stage works on m, the locals of codex plus the exception raised so    *)
(* far; a stage after a raise does nothing.                                *)

TypeName(v) == IF v.t = "None" THEN "NoneType" ELSE v.t

\* v.get(...) on a value that is no dict
NoGet(v) == "'" \o TypeName(v) \o "' object has no attribute 'get'"

\* "x" in v on a value that is no container
NotIterable(v) == "argument of type '" \o TypeName(v) \o "' is not iterable"

\* "..." + v on a value that is no string
NotStr(v) == "can only concatenate str (not \"" \o TypeName(v) \o "\") to str"

Raise(m, text) == [m EXCEPT !.raised = TRUE, !.exc = text]

\* sub in v: a substring of a str, an element of a list, a key of a dict
In(sub, v) ==
    CASE v.t = "str" -> Contains(v.s, sub)
      [] v.t = "list" -> \E i \in 1..Len(v.xs) : v.xs[i] = Str(sub)
      [] v.t = "dict" -> sub \in DOMAIN v.d
      [] OTHER -> FALSE

\* repr of one character of a str delimited by quote
ReprChar(c, quote) ==
    CASE c = "\\" -> "\\\\"
      [] c = "\t" -> "\\t"
      [] c = "\n" -> "\\n"
      [] c = "\r" -> "\\r"
      [] c = quote -> "\\" \o quote
      [] OTHER -> c

RECURSIVE ReprFrom(_, _, _)
ReprFrom(s, i, quote) ==
    IF i > Len(s) THEN "" ELSE ReprChar(Char(s, i), quote) \o ReprFrom(s, i + 1, quote)

\* repr(line) of a str: double quotes when the text has a single quote and no double
\* quote, single quotes otherwise; the delimiter and the backslash escaped
Repr(line) ==
    LET quote == IF Contains(line, "'") /\ ~Contains(line, "\"") THEN "\"" ELSE "'"
    IN  quote \o ReprFrom(line, 1, quote) \o quote

\* a failure event that never changes the verdict
FlipOnFailureNever(succ, agent) == succ

\* success = False if len(agent_messages) == 0 else success, lines 239 and 247
FlipOnFailureAlways(succ, agent) == FALSE

FlipOnFailure(succ, agent) == IF Len(agent) = 0 THEN FALSE ELSE succ

\* "\n\n[codex error] " + msg, lines 240 and 248
CodexErrorNoteDropped(msg) == ""

CodexErrorNote(msg) == "\n\n[codex error] " \o msg

\* an agent_message text replacing the accumulated text instead of extending it
StageItemOverwrite(m, line_dict) ==
    IF m.raised THEN m
    ELSE IF line_dict.t # "dict" THEN Raise(m, NoGet(line_dict))
    ELSE LET item == Get(line_dict, "item", EmptyDict)
         IN  IF item.t # "dict" THEN Raise(m, NoGet(item))
             ELSE LET item_type == Get(item, "type", Str(""))
                      text == Get(item, "text", Str(""))
                  IN  IF item_type # Str("agent_message") THEN m
                      ELSE IF text.t # "str" THEN Raise(m, NotStr(text))
                      ELSE [m EXCEPT !.agent_messages = text.s]

\* lines 232-235
StageItem(m, line_dict) ==
    IF m.raised THEN m
    ELSE IF line_dict.t # "dict" THEN Raise(m, NoGet(line_dict))
    ELSE LET item == Get(line_dict, "item", EmptyDict)
         IN  IF item.t # "dict" THEN Raise(m, NoGet(item))
             ELSE LET item_type == Get(item, "type", Str(""))
                      text == Get(item, "text", Str(""))
                  IN  IF item_type # Str("agent_message") THEN m
                      ELSE IF text.t # "str" THEN Raise(m, NotStr(text))
                      ELSE [m EXCEPT !.agent_messages = @ \o text.s]

\* a thread_id recorded whatever it is, null or absent included
StageThreadIdAny(m, line_dict) ==
    IF m.raised THEN m
    ELSE [m EXCEPT !.thread_id = Get(line_dict, "thread_id", None)]

\* a thread_id recorded only while none is known (first write wins)
StageThreadIdFirst(m, line_dict) ==
    IF m.raised THEN m
    ELSE IF Get(line_dict, "thread_id", None) # None /\ m.thread_id = None
         THEN [m EXCEPT !.thread_id = Get(line_dict, "thread_id", None)]
         ELSE m

\* lines 236-237
StageThreadId(m, line_dict) ==
    IF m.raised THEN m
    ELSE IF Get(line_dict, "thread_id", None) # None
         THEN [m EXCEPT !.thread_id = Get(line_dict, "thread_id", None)]
         ELSE m

\* lines 238-240
StageFail(m, line_dict) ==
    IF m.raised THEN m
    ELSE LET type == Get(line_dict, "type", Str(""))
         IN  IF type.t \notin {"str", "list", "dict"} THEN Raise(m, NotIterable(type))
             ELSE IF ~In("fail", type) THEN m
             ELSE LET m1 == [m EXCEPT !.success = FlipOnFailure(@, m.agent_messages)]
                      error == Get(line_dict, "error", EmptyDict)
                  IN  IF error.t # "dict" THEN Raise(m1, NoGet(error))
                      ELSE LET msg == Get(error, "message", Str(""))
                           IN  IF msg.t # "str" THEN Raise(m1, NotStr(msg))
                               ELSE [m1 EXCEPT !.err_message = @ \o CodexErrorNote(msg.s)]

\* lines 241-248
StageError(m, line_dict) ==
    IF m.raised THEN m
    ELSE LET type == Get(line_dict, "type", Str(""))
         IN  IF type.t \notin {"str", "list", "dict"} THEN Raise(m, NotIterable(type))
             ELSE IF ~In("error", type) THEN m
             ELSE LET error_msg == Get(line_dict, "message", Str(""))
                  IN  IF error_msg.t # "str"
                      THEN Raise(m, "expected string or bytes-like object")
                      ELSE IF IsReconnecting(error_msg.s) THEN m
                      ELSE [m EXCEPT !.success = FlipOnFailure(@, m.agent_messages),
                                     !.err_message = @ \o CodexErrorNote(error_msg.s)]

\* F(v), with v evaluated once
Then(v, F(_)) == CHOOSE y \in {F(x) : x \in {v}} : TRUE

\* the loop body with a JSON decode error treated as fatal
ProcessLineDecodeFatal(st, line) ==
    LET start(line_dict) ==
            [all_messages |-> Append(st.all_messages, line_dict),
             agent_messages |-> st.agent_messages,
             success |-> st.success,
             err_message |-> st.err_message,
             thread_id |-> st.thread_id,
             raised |-> FALSE,
             exc |-> ""]
        out(x) == [all_messages |-> x.all_messages,
                   agent_messages |-> x.agent_messages,
                   success |-> x.success,
                   err_message |-> x.err_message,
                   thread_id |-> x.thread_id]
        end(m) ==
            IF m.raised
            THEN \* except Exception, lines 256-259
                 [st |-> out([m EXCEPT !.err_message =
                                          @ \o "\n\n[unexpected error] " \o "Unexpected error: "
                                            \o m.exc \o ". Line: " \o Repr(line),
                                       !.success = FALSE]),
                  brk |-> TRUE]
            ELSE [st |-> out(m), brk |-> FALSE]
    IN  Then(JsonLoads(Strip(line)), LAMBDA parsed :
            IF ~parsed.ok
            THEN \* except json.JSONDecodeError, lines 250-254
                 [st |-> [st EXCEPT !.err_message = @ \o "\n\n[json decode error] " \o line,
                                    !.success = FALSE],
                  brk |-> TRUE]
            ELSE Then(StageItem(start(parsed.val), parsed.val), LAMBDA m1 :
                 Then(StageThreadId(m1, parsed.val), LAMBDA m2 :
                 Then(StageFail(m2, parsed.val), LAMBDA m3 :
                 Then(StageError(m3, parsed.val), end)))))

\* One pass of the loop body on line, from the locals st:
\* [st |-> the locals after it, brk |-> whether the loop was left by break].
ProcessLine(st, line) ==
    LET start(line_dict) ==
            [all_messages |-> Append(st.all_messages, line_dict),
             agent_messages |-> st.agent_messages,
             success |-> st.success,
             err_message |-> st.err_message,
             thread_id |-> st.thread_id,
             raised |-> FALSE,
             exc |-> ""]
        out(x) == [all_messages |-> x.all_messages,
                   agent_messages |-> x.agent_messages,
                   success |-> x.success,
                   err_message |-> x.err_message,
                   thread_id |-> x.thread_id]
        end(m) ==
            IF m.raised
            THEN \* except Exception, lines 256-259
                 [st |-> out([m EXCEPT !.err_message =
                                          @ \o "\n\n[unexpected error] " \o "Unexpected error: "
                                            \o m.exc \o ". Line: " \o Repr(line),
                                       !.success = FALSE]),
                  brk |-> TRUE]
            ELSE [st |-> out(m), brk |-> FALSE]
    IN  Then(JsonLoads(Strip(line)), LAMBDA parsed :
            IF ~parsed.ok
            THEN \* except json.JSONDecodeError, lines 250-254
                 [st |-> [st EXCEPT !.err_message = @ \o "\n\n[json decode error] " \o line],
                  brk |-> FALSE]
            ELSE Then(StageItem(start(parsed.val), parsed.val), LAMBDA m1 :
                 Then(StageThreadId(m1, parsed.val), LAMBDA m2 :
                 Then(StageFail(m2, parsed.val), LAMBDA m3 :
                 Then(StageError(m3, parsed.val), end)))))

\* The locals of codex as one record.
Locals ==
    [all_messages |-> all_messages, agent_messages |-> agent_messages,
     success |-> success, err_message |-> err_message, thread_id |-> thread_id]

\* the result with the event log attached on the success path only
MakeResultLogOnSuccess(st, want_all) ==
    LET noId == st.thread_id = None
        err1 == IF noId
                THEN "Failed to get SESSION_ID from the codex session. \n\n" \o st.err_message
                ELSE st.err_message
        noText == Len(st.agent_messages) = 0
        err2 == IF noText
                THEN "Failed to get agent_messages from the codex session. \n\n You can try to set return_all_messages to True to get the full reasoning information. "
                     \o err1
                ELSE err1
        ok == st.success /\ ~noId /\ ~noText
        base == IF ok
                THEN [success |-> TRUE, SESSION_ID |-> st.thread_id,
                      agent_messages |-> st.agent_messages]
                ELSE [success |-> FALSE, error |-> err2]
    IN  IF want_all /\ ok
        THEN [k \in DOMAIN base \cup {"all_messages"} |->
                 IF k = "all_messages" THEN st.all_messages ELSE base[k]]
        ELSE base

\* the verdict after the loop with the missing-SESSION_ID note put after the error text
MakeResultNoteLast(st, want_all) ==
    LET noId == st.thread_id = None
        err1 == IF noId
                THEN st.err_message \o "Failed to get SESSION_ID from the codex session. \n\n"
                ELSE st.err_message
        noText == Len(st.agent_messages) = 0
        err2 == IF noText
                THEN "Failed to get agent_messages from the codex session. \n\n You can try to set return_all_messages to True to get the full reasoning information. "
                     \o err1
                ELSE err1
        ok == st.success /\ ~noId /\ ~noText
        base == IF ok
                THEN [success |-> TRUE, SESSION_ID |-> st.thread_id,
                      agent_messages |-> st.agent_messages]
                ELSE [success |-> FALSE, error |-> err2]
    IN  IF want_all
        THEN [k \in DOMAIN base \cup {"all_messages"} |->
                 IF k = "all_messages" THEN st.all_messages ELSE base[k]]
        ELSE base

\* lines 261-283: the verdict after the loop and the result dict (the messages are the
\* source's without their backquotes)
MakeResult(st, want_all) ==
    LET noId == st.thread_id = None
        err1 == IF noId
                THEN "Failed to get SESSION_ID from the codex session. \n\n" \o st.err_message
                ELSE st.err_message
        noText == Len(st.agent_messages) = 0
        err2 == IF noText
                THEN "Failed to get agent_messages from the codex session. \n\n You can try to set return_all_messages to True to get the full reasoning information. "
                     \o err1
                ELSE err1
        ok == st.success /\ ~noId /\ ~noText
        base == IF ok
                THEN [success |-> TRUE, SESSION_ID |-> st.thread_id,
                      agent_messages |-> st.agent_messages]
                ELSE [success |-> FALSE, error |-> err2]
    IN  IF want_all
        THEN [k \in DOMAIN base \cup {"all_messages"} |->
                 IF k = "all_messages" THEN st.all_messages ELSE base[k]]
        ELSE base

-----------------------------------------------------------------------------
(* run_shell_command and codex as a state machine.                         *)

NoResult == [none |-> TRUE]

InitCommon ==
    /\ proc = "unspawned"
    /\ outOpen = FALSE
    /\ termSent = FALSE
    /\ emitted = <<>>
    /\ nread = 0
    /\ rpc = "unstarted"
    /\ output_queue = <<>>
    /\ enqueued = <<>>
    /\ yielded = <<>>
    /\ drainYields = 0
    /\ leftBy = ""
    /\ reaped = FALSE
    /\ killed = FALSE
    /\ joined = FALSE
    /\ all_messages = <<>>
    /\ agent_messages = ""
    /\ success = TRUE
    /\ err_message = ""
    /\ thread_id = None
    /\ apc = "loop"
    /\ result = NoResult
    /\ return_all_messages \in BOOLEAN

\* codex has called run_shell_command(cmd); the generator has not run yet
Init == InitCommon /\ cpc = "start"

\* is_turn_completed(line), lines 57-63: the AttributeError of a value with no get is caught
is_turn_completed(line) ==
    LET data == JsonLoads(line)
    IN  data.ok /\ data.val.t = "dict" /\ Get(data.val, "type", None) = Str("turn.completed")

\* where read_output goes after process.terminate(): break, line 74
AfterTerminateKeepReading == "read"

AfterTerminate == "finish"

\* read_output still holds process.stdout open
ReadEndOpen == rpc \in {"read", "terminate", "finish"}

\* what read_output puts last: output_queue.put(None), line 76
SentinelMissing == <<>>

SentinelTwice == <<None, None>>

Sentinel == <<None>>

\* output_queue.get: the oldest item
QueueGetNewest(q) == [item |-> q[Len(q)], rest |-> SubSeq(q, 1, Len(q) - 1)]

QueueGet(q) == [item |-> Head(q), rest |-> Tail(q)]

\* process.poll() is not None and not thread.is_alive(), line 89
StopPollingOnExit(exited, threadAlive) == exited

StopPolling(exited, threadAlive) == exited /\ ~threadAlive

\* a failure of Popen swallowed: the generator ends without a line
SpawnSwallowsFailure ==
    /\ cpc = "start"
    /\ \/ /\ proc' = "running"
          /\ outOpen' = TRUE
          /\ rpc' = "read"
          /\ cpc' = "get"
          /\ apc' = apc
       \/ /\ proc' = "failed"
          /\ cpc' = "done"
          /\ apc' = apc
          /\ UNCHANGED <<outOpen, rpc>>
    /\ UNCHANGED <<enqueued, termSent, emitted, nread, output_queue, yielded, drainYields, leftBy, reaped,
                   killed, joined, foldVars, result, return_all_messages>>

\* lines 40-79: Popen and thread.start(), on the first next() of the generator
Spawn ==
    /\ cpc = "start"
    /\ \/ /\ proc' = "running"
          /\ outOpen' = TRUE
          /\ rpc' = "read"
          /\ cpc' = "get"
          /\ apc' = apc
       \/ \* Popen raises: the exception leaves the generator and codex
          /\ proc' = "failed"
          /\ cpc' = "raised"
          /\ apc' = "raised"
          /\ UNCHANGED <<outOpen, rpc>>
    /\ UNCHANGED <<enqueued, termSent, emitted, nread, output_queue, yielded, drainYields, leftBy, reaped,
                   killed, joined, foldVars, result, return_all_messages>>

\* the child (or a descendant holding its output) writes one line
ChildEmit ==
    /\ outOpen
    /\ ReadEndOpen
    /\ Len(emitted) < MaxLines
    /\ \E raw \in RawLines : emitted' = Append(emitted, raw)
    /\ UNCHANGED <<enqueued, proc, outOpen, termSent, nread, rpc, output_queue, cpc, yielded,
                   drainYields, leftBy, reaped, killed, joined, foldVars, apc, result, return_all_messages>>

\* the last holder of the write end closes it
CloseOutput ==
    /\ outOpen
    /\ outOpen' = FALSE
    /\ UNCHANGED <<enqueued, proc, termSent, emitted, nread, rpc, output_queue, cpc, yielded,
                   drainYields, leftBy, reaped, killed, joined, foldVars, apc, result, return_all_messages>>

\* the child exits by itself (or on SIGTERM); a descendant may keep its output open
ChildExit ==
    /\ proc = "running"
    /\ proc' = "exited"
    /\ \E keep \in BOOLEAN : outOpen' = (outOpen /\ keep)
    /\ UNCHANGED <<enqueued, termSent, emitted, nread, rpc, output_queue, cpc, yielded,
                   drainYields, leftBy, reaped, killed, joined, foldVars, apc, result, return_all_messages>>

\* read_output, lines 68-72: readline returns a line; strip, put, is_turn_completed
R_Line ==
    /\ rpc = "read"
    /\ nread < Len(emitted)
    /\ \E stripped \in {Strip(emitted[nread + 1])} :
           /\ output_queue' = Append(output_queue, Str(stripped))
           /\ enqueued' = Append(enqueued, Str(stripped))
           /\ rpc' = IF is_turn_completed(stripped) THEN "terminate" ELSE "read"
    /\ nread' = nread + 1
    /\ UNCHANGED <<proc, outOpen, termSent, emitted, cpc, yielded, drainYields, leftBy, reaped,
                   killed, joined, foldVars, apc, result, return_all_messages>>

\* read_output, lines 72-74: sleep, process.terminate(), break
R_Terminate ==
    /\ rpc = "terminate"
    /\ termSent' = TRUE
    /\ rpc' = AfterTerminate
    /\ UNCHANGED <<enqueued, proc, outOpen, emitted, nread, output_queue, cpc, yielded, drainYields, leftBy,
                   reaped, killed, joined, foldVars, apc, result, return_all_messages>>

\* read_output, line 68: readline returns "" at the end of the child's output
R_EOF ==
    /\ rpc = "read"
    /\ nread = Len(emitted)
    /\ ~outOpen
    /\ rpc' = "finish"
    /\ UNCHANGED <<enqueued, proc, outOpen, termSent, emitted, nread, output_queue, cpc, yielded,
                   drainYields, leftBy, reaped, killed, joined, foldVars, apc, result, return_all_messages>>

\* read_output, lines 75-76: process.stdout.close(); output_queue.put(None)
R_Finish ==
    /\ rpc = "finish"
    /\ output_queue' = output_queue \o Sentinel
    /\ enqueued' = enqueued \o Sentinel
    /\ rpc' = "return"
    /\ UNCHANGED <<proc, outOpen, termSent, emitted, nread, cpc, yielded, drainYields, leftBy,
                   reaped, killed, joined, foldVars, apc, result, return_all_messages>>

\* read_output returns: the thread is no longer alive
R_Return ==
    /\ rpc = "return"
    /\ rpc' = "done"
    /\ UNCHANGED <<enqueued, proc, outOpen, termSent, emitted, nread, output_queue, cpc, yielded,
                   drainYields, leftBy, reaped, killed, joined, foldVars, apc, result, return_all_messages>>

\* a loop that goes on after an unexpected error
YieldNoBreak(line, back) ==
    \E r \in {ProcessLine(Locals, line)} :
        /\ yielded' = Append(yielded, line)
        /\ all_messages' = r.st.all_messages
        /\ agent_messages' = r.st.agent_messages
        /\ success' = r.st.success
        /\ err_message' = r.st.err_message
        /\ thread_id' = r.st.thread_id
        /\ cpc' = back

\* yield line (line 87 or 103) and the pass of codex's loop body on it, lines 228-259.
\* After break codex drops the generator: GeneratorExit is raised at the yield, no
\* handler of run_shell_command catches it and nothing after the yield runs.
Yield(line, back) ==
    \E r \in {ProcessLine(Locals, line)} :
        /\ yielded' = Append(yielded, line)
        /\ all_messages' = r.st.all_messages
        /\ agent_messages' = r.st.agent_messages
        /\ success' = r.st.success
        /\ err_message' = r.st.err_message
        /\ thread_id' = r.st.thread_id
        /\ cpc' = IF r.brk THEN "closed" ELSE back

\* lines 84-87: output_queue.get(timeout=0.5) returns an item
C_Get ==
    /\ cpc = "get"
    /\ output_queue # <<>>
    /\ LET got == QueueGet(output_queue)
       IN  /\ output_queue' = got.rest
           /\ IF got.item = None
              THEN /\ cpc' = "wait"
                   /\ leftBy' = "sentinel"
                   /\ UNCHANGED <<yielded, foldVars>>
              ELSE /\ Yield(got.item.s, "get")
                   /\ UNCHANGED leftBy
    /\ UNCHANGED <<enqueued, proc, outOpen, termSent, emitted, nread, rpc, drainYields, reaped,
                   killed, joined, apc, result, return_all_messages>>

\* line 88: the get times out on an empty queue
C_Empty ==
    /\ cpc = "get"
    /\ output_queue = <<>>
    /\ cpc' = "poll"
    /\ UNCHANGED <<enqueued, proc, outOpen, termSent, emitted, nread, rpc, output_queue, yielded,
                   drainYields, leftBy, reaped, killed, joined, foldVars, apc, result, return_all_messages>>

\* lines 89-90: process.poll() (which collects an exited child) and thread.is_alive()
C_Poll ==
    /\ cpc = "poll"
    /\ reaped' = (reaped \/ proc = "exited")
    /\ IF StopPolling(proc = "exited", rpc # "done")
       THEN cpc' = "wait" /\ leftBy' = "timeout"
       ELSE cpc' = "get" /\ UNCHANGED leftBy
    /\ UNCHANGED <<enqueued, proc, outOpen, termSent, emitted, nread, rpc, output_queue, yielded,
                   drainYields, killed, joined, foldVars, apc, result, return_all_messages>>

\* lines 92-94: process.wait(timeout=5) returns, or raises TimeoutExpired
C_Wait ==
    /\ cpc = "wait"
    /\ \/ /\ proc = "exited"
          /\ reaped' = TRUE
          /\ cpc' = "join"
       \/ /\ proc = "running"
          /\ cpc' = "kill"
          /\ UNCHANGED reaped
    /\ UNCHANGED <<enqueued, proc, outOpen, termSent, emitted, nread, rpc, output_queue, yielded,
                   drainYields, leftBy, killed, joined, foldVars, apc, result, return_all_messages>>

\* lines 95-96: process.kill(); process.wait()
C_Kill ==
    /\ cpc = "kill"
    /\ killed' = TRUE
    /\ proc' = "exited"
    /\ \E keep \in BOOLEAN : outOpen' = (outOpen /\ (keep \/ proc = "exited"))
    /\ reaped' = TRUE
    /\ cpc' = "join"
    /\ UNCHANGED <<enqueued, termSent, emitted, nread, rpc, output_queue, yielded, drainYields, leftBy,
                   joined, foldVars, apc, result, return_all_messages>>

\* line 97: thread.join(timeout=5) returns, the thread finished or not
C_Join ==
    /\ cpc = "join"
    /\ joined' = TRUE
    /\ cpc' = "drain"
    /\ UNCHANGED <<enqueued, proc, outOpen, termSent, emitted, nread, rpc, output_queue, yielded,
                   drainYields, leftBy, reaped, killed, foldVars, apc, result, return_all_messages>>

\* lines 99-105: one turn of the drain loop, or its end
C_Drain ==
    /\ cpc = "drain"
    /\ IF output_queue = <<>>
       THEN /\ cpc' = "done"
            /\ UNCHANGED <<output_queue, yielded, drainYields, foldVars>>
       ELSE LET got == QueueGet(output_queue)
            IN  /\ output_queue' = got.rest
                /\ IF got.item = None
                   THEN /\ cpc' = "drain"
                        /\ UNCHANGED <<yielded, drainYields, foldVars>>
                   ELSE /\ Yield(got.item.s, "drain")
                        /\ drainYields' = drainYields + 1
    /\ UNCHANGED <<enqueued, proc, outOpen, termSent, emitted, nread, rpc, reaped, killed, joined,
                   leftBy, apc, result, return_all_messages>>

\* codex, lines 261-283, once the loop over the generator has ended
CodexReturn ==
    /\ apc = "loop"
    /\ cpc \in {"done", "closed"}
    /\ result' = MakeResult(Locals, return_all_messages)
    /\ apc' = "returned"
    /\ UNCHANGED <<childVars, cpc, yielded, drainYields, leftBy, foldVars, return_all_messages>>

ChildNext == ChildEmit \/ CloseOutput \/ ChildExit

ReaderNext == R_Line \/ R_Terminate \/ R_EOF \/ R_Finish \/ R_Return

CallerNext == Spawn \/ C_Get \/ C_Empty \/ C_Poll \/ C_Wait \/ C_Kill \/ C_Join \/ C_Drain
                  \/ CodexReturn

Next == ChildNext \/ ReaderNext \/ CallerNext

Spec == Init /\ [][Next]_vars

\* The reader thread and the caller's thread are scheduled fairly; the child is not
\* obliged to do anything.
FairSpec == Spec /\ WF_vars(ReaderNext) /\ WF_vars(CallerNext)

-----------------------------------------------------------------------------
(* codex over an arbitrary line sequence: the generator yields what it is   *)
(* given, up to MaxFold lines.                                              *)

InitFold == InitCommon /\ cpc = "fold"

\* the generator yields one more line, lines 228-259
FoldLine ==
    /\ cpc = "fold"
    /\ Len(yielded) < MaxFold
    /\ \E line \in Lines : Yield(line, "fold")
    /\ UNCHANGED <<childVars, drainYields, leftBy, apc, result, return_all_messages>>

\* the generator is exhausted
FoldEnd ==
    /\ cpc = "fold"
    /\ cpc' = "done"
    /\ UNCHANGED <<childVars, yielded, drainYields, leftBy, foldVars, apc, result, return_all_messages>>

NextFold == FoldLine \/ FoldEnd \/ CodexReturn

FoldSpec == InitFold /\ [][NextFold]_vars

-----------------------------------------------------------------------------
(* The claims.                                                             *)

\* the stripped lines of the child's output, in the order written
StrippedOutput == [i \in 1..Len(emitted) |-> Strip(emitted[i])]

NoTerminalLine == \A i \in 1..Len(emitted) : ~is_turn_completed(Strip(emitted[i]))

\* C1: when the child has written N lines, none of them a turn.completed event, and has
\* exited with its output closed, a generator that has run to its end has yielded
\* exactly those N lines, whatever the interleaving of reader and consumer was.
C1_DrainCompleteness ==
    (cpc = "done" /\ proc = "exited" /\ ~outOpen /\ NoTerminalLine)
        => yielded = StrippedOutput

\* The consumer left its polling loop on a timeout and the drain yielded lines.
C1_Witness ==
    /\ cpc = "done"
    /\ proc = "exited"
    /\ ~outOpen
    /\ NoTerminalLine
    /\ Len(emitted) = MaxLines
    /\ drainYields >= 1
    /\ yielded = StrippedOutput

\* C2: at every point the lines yielded so far are a prefix of the stripped lines the
\* child has written so far, in the same order, the lines of the drain included.
C2_YieldedIsPrefix ==
    /\ Len(yielded) <= Len(emitted)
    /\ \A i \in 1..Len(yielded) : yielded[i] = StrippedOutput[i]

\* Two different lines were yielded, the second one by the drain, and the raw first
\* line differs from its stripped form.
C2_Witness ==
    /\ Len(yielded) >= 2
    /\ yielded[1] # yielded[2]
    /\ yielded[1] # emitted[1]
    /\ drainYields >= 1

\* C3: whatever the child does, an invocation whose caller keeps consuming eventually
\* finishes: codex returns (or raises when the child could not be spawned).
C3_AlwaysFinishes == <>(apc \in {"returned", "raised"})

Spawned == proc \in {"running", "exited"}

\* C4: when codex returns and the child was spawned, the child has been waited for or
\* killed and the reader thread has been joined, on every exit path of the loop.
C4_ReapedOnReturn ==
    (apc = "returned" /\ Spawned) => ((reaped \/ killed) /\ joined)

\* the child has closed its output and exited, or has written a turn.completed line
ChildIsThrough ==
    \/ proc = "exited" /\ ~outOpen
    \/ ~NoTerminalLine

\* C5: once the child has closed its output and exited, or has written a
\* turn.completed line, the reader puts the sentinel and finishes and the generator
\* stops yielding and ends, under fair scheduling of the two threads.
C5_Terminates ==
    ChildIsThrough ~> (/\ rpc = "done"
                       /\ enqueued # <<>>
                       /\ enqueued[Len(enqueued)] = None
                       /\ cpc \in {"done", "closed"})

\* The child wrote turn.completed, ignored the termination request and was killed.
C5_Witness ==
    /\ ~NoTerminalLine
    /\ termSent
    /\ killed
    /\ rpc = "done"
    /\ cpc = "done"

TerminalYielded == \E i \in 1..Len(yielded) : is_turn_completed(yielded[i])

TerminalEnqueued ==
    \E i \in 1..Len(enqueued) : enqueued[i] # None /\ is_turn_completed(enqueued[i].s)

\* nothing but the sentinel is enqueued after a turn.completed line
NothingEnqueuedAfterTerminal ==
    \A i \in 1..Len(enqueued) : \A j \in (i + 1)..Len(enqueued) :
        (enqueued[i] # None /\ is_turn_completed(enqueued[i].s)) => enqueued[j] = None

\* nothing is yielded after a turn.completed line
NothingYieldedAfterTerminal ==
    \A i \in 1..(Len(yielded) - 1) : ~is_turn_completed(yielded[i])

\* C6 as stated: the turn.completed line is enqueued and yielded before the reader
\* requests termination of the child and stops reading, and no line after it is
\* enqueued or yielded.
C6_YieldedBeforeTerminate ==
    /\ termSent => (TerminalEnqueued /\ TerminalYielded /\ rpc \in {"finish", "return", "done"})
    /\ NothingEnqueuedAfterTerminal
    /\ NothingYieldedAfterTerminal

\* C6, amended: the turn.completed line is enqueued before the reader requests
\* termination and stops reading; no line after it is enqueued or yielded; and a
\* generator that runs to its end has yielded it as its last line.
C6_TerminalLineIsLast ==
    /\ termSent => (TerminalEnqueued /\ rpc \in {"finish", "return", "done"})
    /\ NothingEnqueuedAfterTerminal
    /\ NothingYieldedAfterTerminal
    /\ (termSent /\ cpc = "done") =>
           (yielded # <<>> /\ is_turn_completed(yielded[Len(yielded)]))

\* The child wrote a line after turn.completed, which the reader never read, and the
\* generator ended with the turn.completed line as the last one yielded.
C6_Witness ==
    /\ termSent
    /\ cpc = "done"
    /\ rpc = "done"
    /\ Len(emitted) > nread
    /\ Len(yielded) >= 2
    /\ is_turn_completed(yielded[Len(yielded)])

-----------------------------------------------------------------------------
(* Claims about the fold of codex, stated on the lines it has consumed.    *)

\* the JSON reading of a consumed line
Event(line) == JsonLoads(Strip(line))

IsObject(line) == Event(line).ok /\ Event(line).val.t = "dict"

\* an event whose item.type is "agent_message"
IsAgentEvent(line) ==
    /\ IsObject(line)
    /\ Get(Event(line).val, "item", EmptyDict).t = "dict"
    /\ Get(Get(Event(line).val, "item", EmptyDict), "type", Str("")) = Str("agent_message")

TypeContains(line, sub) ==
    /\ IsObject(line)
    /\ Get(Event(line).val, "type", Str("")).t = "str"
    /\ Contains(Get(Event(line).val, "type", Str("")).s, sub)

\* s is "Reconnecting...", white space, digits, "/", digits (and at most one newline)
MatchesReconnectPattern(s) ==
    LET n == Len(s)
        p == Len("Reconnecting...")
    IN  /\ n > p
        /\ SubSeq(s, 1, p) = "Reconnecting..."
        /\ \E i, j, k \in (p + 1)..(n + 1) :
              /\ p + 1 < i /\ i < j /\ j + 1 < k
              /\ \A x \in (p + 1)..(i - 1) : IsSpace(Char(s, x))
              /\ \A x \in i..(j - 1) : IsDigit(Char(s, x))
              /\ Char(s, j) = "/"
              /\ \A x \in (j + 1)..(k - 1) : IsDigit(Char(s, x))
              /\ (k = n + 1 \/ (k = n /\ Char(s, n) = "\n"))

HasReconnectMessage(line) ==
    /\ IsObject(line)
    /\ Get(Event(line).val, "message", Str("")).t = "str"
    /\ MatchesReconnectPattern(Get(Event(line).val, "message", Str("")).s)

\* type contains "fail", or type contains "error" with a non-reconnect message
IsFailureSignal(line) ==
    \/ TypeContains(line, "fail")
    \/ TypeContains(line, "error") /\ ~HasReconnectMessage(line)

\* this step hands one more line to the loop body of codex
Consuming == Len(yielded') = Len(yielded) + 1

ConsumedLine == yielded'[Len(yielded')]

\* C7: a result with success == true carries a non-empty session identifier and a
\* non-empty agent text.
C7_SuccessHasIdAndText ==
    (apc = "returned" /\ result.success) =>
        /\ result.SESSION_ID.t = "str"
        /\ Len(result.SESSION_ID.s) > 0
        /\ Len(result.agent_messages) > 0

\* C8: whenever the verdict is failure some diagnostic text has been added: during the
\* fold success = False comes with a non-empty err_message, and a returned result
\* with success == false carries a non-empty error.
C8_FailureHasMessage ==
    /\ ~success => Len(err_message) > 0
    /\ (apc = "returned" /\ ~result.success) => Len(result.error) > 0

\* A failure result although a session identifier and an agent text were seen: the
\* verdict comes from a failure event of the fold, not from the checks after the loop.
C8_Witness ==
    /\ apc = "returned"
    /\ ~result.success
    /\ thread_id # None
    /\ Len(agent_messages) > 0
    /\ cpc = "done"

\* a failure-signalling event that came strictly before any agent_message event
FailureBeforeAnyAgentEvent ==
    \E j \in 1..Len(yielded) :
        /\ IsFailureSignal(yielded[j])
        /\ \A i \in 1..j : ~IsAgentEvent(yielded[i])

C9_FailureFirstForces == (apc = "returned" /\ FailureBeforeAnyAgentEvent) => ~result.success

\* C9 as stated: a failure-signalling event strictly before any agent_message event
\* forces success = false in the result; one strictly after at least one
\* agent_message event does not flip success to false.
C9_FailurePrecedence ==
    /\ []C9_FailureFirstForces
    /\ [][(/\ Consuming
           /\ IsFailureSignal(ConsumedLine)
           /\ \E i \in 1..Len(yielded) : IsAgentEvent(yielded[i]))
             => success' = success]_vars

\* C9, amended: a failure-signalling event strictly before any agent_message event
\* forces success = false in the result; one that arrives when the accumulated agent
\* text is non-empty and is processed without an unexpected error does not flip
\* success to false.
C9_FailurePrecedenceByText ==
    /\ []C9_FailureFirstForces
    /\ [][(/\ Consuming
           /\ IsFailureSignal(ConsumedLine)
           /\ Len(agent_messages) > 0
           /\ cpc' # "closed")
             => success' = success]_vars

\* A success result of a run that consumed a failure-signalling event after agent text.
C9_Witness ==
    /\ apc = "returned"
    /\ result.success
    /\ \E j \in 2..Len(yielded) :
          /\ IsFailureSignal(yielded[j])
          /\ \E i \in 1..(j - 1) : IsAgentEvent(yielded[i])

\* C10 as stated: an event whose type contains "error" and whose message matches the
\* reconnect pattern leaves success and err_message unchanged, whatever the type.
C10_ReconnectIgnored ==
    [][(/\ Consuming
        /\ TypeContains(ConsumedLine, "error")
        /\ HasReconnectMessage(ConsumedLine))
          => (success' = success /\ err_message' = err_message)]_vars

\* C10, amended: such an event leaves success and err_message unchanged when its type
\* does not also contain "fail" and processing it raises no unexpected error.
C10_ReconnectIgnoredUnlessFail ==
    [][(/\ Consuming
        /\ TypeContains(ConsumedLine, "error")
        /\ ~TypeContains(ConsumedLine, "fail")
        /\ HasReconnectMessage(ConsumedLine)
        /\ cpc' # "closed")
          => (success' = success /\ err_message' = err_message)]_vars

\* A success result, with no diagnostic at all, of a run that consumed a reconnect
\* event before any agent text.
C10_Witness ==
    /\ apc = "returned"
    /\ result.success
    /\ err_message = ""
    /\ yielded # <<>>
    /\ TypeContains(yielded[1], "error")
    /\ HasReconnectMessage(yielded[1])

-----------------------------------------------------------------------------
(* Claims about the result of codex, stated on the consumed line sequence. *)

\* an event that carries a present, non-null thread_id
HasThreadId(line) == IsObject(line) /\ Get(Event(line).val, "thread_id", None) # None

\* the thread_id of the last event of seq that carries one (None when no event does)
LastThreadId(seq) ==
    LET S == {i \in 1..Len(seq) : HasThreadId(seq[i])}
    IN  IF S = {} THEN None
        ELSE Get(Event(seq[CHOOSE i \in S : \A j \in S : j <= i]).val, "thread_id", None)

\* C11: the session identifier of a returned result equals the thread_id of the last
\* consumed event that carries a present, non-null thread_id.
C11_LastThreadIdWins ==
    (apc = "returned" /\ "SESSION_ID" \in DOMAIN result)
        => result.SESSION_ID = LastThreadId(yielded)

\* Two events with different thread_ids were consumed, another event after the
\* first of them, and the result carries the later thread_id.
C11_Witness ==
    /\ apc = "returned"
    /\ "SESSION_ID" \in DOMAIN result
    /\ \E i, j \in 1..Len(yielded) :
          /\ i < j
          /\ HasThreadId(yielded[i])
          /\ HasThreadId(yielded[j])
          /\ LastThreadId(<<yielded[i]>>) # LastThreadId(<<yielded[j]>>)
          /\ result.SESSION_ID = LastThreadId(<<yielded[j]>>)

\* item.text of an agent_message event (empty when absent), "" for any other line
AgentTextOf(line) ==
    IF IsAgentEvent(line)
    THEN LET text == Get(Get(Event(line).val, "item", EmptyDict), "text", Str(""))
         IN  IF text.t = "str" THEN text.s ELSE ""
    ELSE ""

\* the concatenation, in order, of the agent texts of seq
RECURSIVE ConcatAgentText(_)
ConcatAgentText(seq) ==
    IF seq = <<>> THEN ""
    ELSE ConcatAgentText(SubSeq(seq, 1, Len(seq) - 1)) \o AgentTextOf(seq[Len(seq)])

\* C12: the accumulated agent text, and the agent text of a returned result, is the
\* concatenation in arrival order of item.text of every consumed agent_message event.
C12_AgentTextIsConcatenation ==
    /\ agent_messages = ConcatAgentText(yielded)
    /\ (apc = "returned" /\ "agent_messages" \in DOMAIN result)
           => result.agent_messages = ConcatAgentText(yielded)

\* A result whose agent text is made of two different non-empty fragments, with a
\* line that is no agent_message event consumed as well.
C12_Witness ==
    /\ apc = "returned"
    /\ "agent_messages" \in DOMAIN result
    /\ \E i, j \in 1..Len(yielded) :
          /\ i < j
          /\ AgentTextOf(yielded[i]) # ""
          /\ AgentTextOf(yielded[j]) # ""
          /\ AgentTextOf(yielded[i]) # AgentTextOf(yielded[j])
    /\ \E k \in 1..Len(yielded) : ~IsAgentEvent(yielded[k])

\* b is what a ends with
EndsWith(a, b) == Len(b) <= Len(a) /\ SubSeq(a, Len(a) - Len(b) + 1, Len(a)) = b

\* the diagnostic of a missing session identifier, line 263 (without its backquotes)
MissingSessionNote == "Failed to get SESSION_ID from the codex session. \n\n"

NoThreadIdSeen == \A i \in 1..Len(yielded) : ~HasThreadId(yielded[i])

\* C13: when no consumed event carries a non-null thread_id the result is a failure,
\* and its error has the missing-session diagnostic directly before the error text
\* accumulated by the loop.
C13_NoThreadIdFails ==
    (apc = "returned" /\ NoThreadIdSeen)
        => /\ ~result.success
           /\ EndsWith(result.error, MissingSessionNote \o err_message)

\* No thread_id, yet agent text, no failure recorded by the loop, and some error text
\* accumulated before the verdict.
C13_Witness ==
    /\ apc = "returned"
    /\ NoThreadIdSeen
    /\ success
    /\ Len(agent_messages) > 0
    /\ Len(err_message) > 0
    /\ ~result.success

\* a line that json.loads rejects
NotJson(line) == ~Event(line).ok

\* seq without the lines that are not JSON
JsonOnly(seq) == SelectSeq(seq, LAMBDA line : ~NotJson(line))

\* the locals of codex before the loop, lines 222-226
InitialLocals ==
    [all_messages |-> <<>>, agent_messages |-> "", success |-> TRUE, err_message |-> "",
     thread_id |-> None]

\* the loop of codex run on seq from the initial locals
RECURSIVE FoldSeq(_)
FoldSeq(seq) ==
    IF seq = <<>> THEN [st |-> InitialLocals, brk |-> FALSE]
    ELSE LET prev == FoldSeq(SubSeq(seq, 1, Len(seq) - 1))
         IN  IF prev.brk THEN prev ELSE ProcessLine(prev.st, seq[Len(seq)])

\* the fold stands where it would stand had the non-JSON lines not been there
SameAsWithoutNonJson ==
    \E ref \in {FoldSeq(JsonOnly(yielded))} :
        /\ success = ref.st.success
        /\ thread_id = ref.st.thread_id
        /\ agent_messages = ref.st.agent_messages
        /\ all_messages = ref.st.all_messages
        /\ (cpc = "closed") = ref.brk
        /\ apc = "returned" =>
              /\ result.success =
                    (ref.st.success /\ ref.st.thread_id # None /\ ref.st.agent_messages # "")
              /\ result.success =>
                    /\ result.SESSION_ID = ref.st.thread_id
                    /\ result.agent_messages = ref.st.agent_messages

\* C14: a line that is not valid JSON never ends the loop and only adds a note to the
\* error text; the success value, the session identifier and the agent text of the
\* result are those of the same sequence without its non-JSON lines.
C14_NonJsonIsHarmless ==
    /\ []SameAsWithoutNonJson
    /\ [][(Consuming /\ NotJson(ConsumedLine))
             => /\ cpc' # "closed"
                /\ UNCHANGED <<success, thread_id, agent_messages, all_messages>>
                /\ err_message' = err_message \o "\n\n[json decode error] " \o ConsumedLine]_vars

\* A success result of a run that consumed a non-JSON line between two events.
C14_Witness ==
    /\ apc = "returned"
    /\ result.success
    /\ Len(yielded) = 3
    /\ NotJson(yielded[2])
    /\ Len(err_message) > 0

\* nothing is consumed and no local of codex changes once the loop was left by break
NothingAfterBreak == cpc = "closed" => UNCHANGED <<yielded, foldVars>>

\* this step consumes a line whose processing raises an unexpected error
UnexpectedError ==
    /\ Consuming
    /\ ~NotJson(ConsumedLine)
    /\ FoldSeq(<<ConsumedLine>>).brk

\* C15 as stated: a line whose processing raises an unexpected error leaves a
\* diagnostic containing the literal text of the line, sets success to false and ends
\* the loop; no later line is consumed and no local changes afterwards.
C15_FatalKeepsLiteralLine ==
    /\ [][UnexpectedError
             => /\ Contains(err_message', ConsumedLine)
                /\ ~success'
                /\ cpc' = "closed"]_vars
    /\ [][NothingAfterBreak]_vars

\* C15, amended: the diagnostic ends with repr of the line, which is the literal
\* text between single quotes when the line has no quote of that kind, no backslash
\* and no control character.
C15_FatalKeepsReprOfLine ==
    /\ [][UnexpectedError
             => /\ EndsWith(err_message', ". Line: " \o Repr(ConsumedLine))
                /\ (\A c \in {"'", "\\", "\t", "\n", "\r"} : ~Contains(ConsumedLine, c))
                      => EndsWith(err_message', "'" \o ConsumedLine \o "'")
                /\ ~success'
                /\ cpc' = "closed"]_vars
    /\ [][NothingAfterBreak]_vars

\* The loop was left by break on the first line, whose repr differs from its text,
\* and codex returned a failure without consuming anything more.
C15_Witness ==
    /\ apc = "returned"
    /\ cpc = "closed"
    /\ Len(yielded) = 1
    /\ ~NotJson(yielded[1])
    /\ ~Contains(err_message, yielded[1])
    /\ ~result.success

\* the parsed events of seq, in order: what json.loads returned for its JSON lines
ParsedEvents(seq) ==
    LET js == JsonOnly(seq)
    IN  [i \in 1..Len(js) |-> Event(js[i]).val]

\* the keys of a result, given its success value and whether the log was requested
ResultKeys(ok, want_all) ==
    (IF ok THEN {"success", "SESSION_ID", "agent_messages"} ELSE {"success", "error"})
        \cup (IF want_all THEN {"all_messages"} ELSE {})

\* C16: a returned result is {success: true, SESSION_ID, agent_messages} or
\* {success: false, error}, never a mix; it has all_messages exactly when
\* return_all_messages was requested, on either path, holding the parsed events in
\* arrival order; and once returned it is the only result.
C16_WellFormedResult ==
    /\ [](apc = "returned" =>
            /\ "success" \in DOMAIN result
            /\ result.success \in BOOLEAN
            /\ DOMAIN result = ResultKeys(result.success, return_all_messages)
            /\ return_all_messages => result.all_messages = ParsedEvents(yielded))
    /\ [][apc = "returned" => (apc' = "returned" /\ result' = result)]_vars

\* A failure result with the event log requested, after two parsed events and a
\* non-JSON line.
C16_Witness ==
    /\ apc = "returned"
    /\ ~result.success
    /\ return_all_messages
    /\ "all_messages" \in DOMAIN result
    /\ Len(result.all_messages) = 2
    /\ Len(yielded) = 3

\* C17: when spawning the child fails, codex raises at once: the reader thread was
\* not started, nothing was enqueued or yielded, no local of codex changed and no
\* result was built.
C17_SpawnFailureSurfaces ==
    /\ proc = "failed" =>
          /\ apc = "raised"
          /\ cpc = "raised"
          /\ rpc = "unstarted"
          /\ enqueued = <<>>
          /\ yielded = <<>>
          /\ Locals = InitialLocals
          /\ result = NoResult
    /\ apc = "raised" => proc = "failed"

\* Popen has raised and codex with it.
C17_Witness ==
    /\ proc = "failed"
    /\ apc = "raised"
    /\ result = NoResult

\* processing this line raises an unexpected error
Raises(line) == ~NotJson(line) /\ FoldSeq(<<line>>).brk

\* a failure-signalling event was processed while the agent text, that of the event
\* itself included, was empty
FailureWhileNoText ==
    \E j \in 1..Len(yielded) :
        /\ IsFailureSignal(yielded[j])
        /\ ConcatAgentText(SubSeq(yielded, 1, j)) = ""

\* C18: the verdict is success exactly when some event carried a non-null
\* thread_id, the agent text is non-empty, no failure-signalling event was processed
\* while the agent text was empty, and no line raised an unexpected error; and the
\* success flag never goes from false to true.
C18_VerdictIsConjunction ==
    /\ [](apc = "returned" =>
            result.success =
               (/\ ~NoThreadIdSeen
                /\ ConcatAgentText(yielded) # ""
                /\ ~FailureWhileNoText
                /\ \A i \in 1..Len(yielded) : ~Raises(yielded[i])))
    /\ [][~success => ~success']_vars

\* A failure whose only cause is a failure-signalling event that came before the
\* agent text.
C18_Witness ==
    /\ apc = "returned"
    /\ ~result.success
    /\ ~NoThreadIdSeen
    /\ ConcatAgentText(yielded) # ""
    /\ FailureWhileNoText
    /\ \A i \in 1..Len(yielded) : ~Raises(yielded[i])

\* a JSON object with no agent_message item, no non-null thread_id and a type that
\* contains neither "fail" nor "error"
Neutral(line) ==
    /\ IsObject(line)
    /\ ~IsAgentEvent(line)
    /\ ~HasThreadId(line)
    /\ ~TypeContains(line, "fail")
    /\ ~TypeContains(line, "error")

\* its item, when present, is an object and its type, when present, is a string
WellShaped(line) ==
    /\ IsObject(line)
    /\ Get(Event(line).val, "item", EmptyDict).t = "dict"
    /\ Get(Event(line).val, "type", Str("")).t = "str"

\* the step only appends the consumed event to the event log
OnlyLogged ==
    /\ UNCHANGED <<agent_messages, thread_id, success, err_message>>
    /\ all_messages' = Append(all_messages, Event(ConsumedLine).val)

\* C19 as stated: processing a JSON object with no agent_message item, no non-null
\* thread_id and a type containing neither "fail" nor "error" only appends the event
\* to the event log.
C19_NeutralEventOnlyLogged ==
    [][(Consuming /\ Neutral(ConsumedLine)) => OnlyLogged]_vars

\* C19, amended: it does so when its item, if present, is an object and its type, if
\* present, is a string.
C19_WellShapedNeutralOnlyLogged ==
    [][(Consuming /\ Neutral(ConsumedLine) /\ WellShaped(ConsumedLine))
          => (OnlyLogged /\ cpc' # "closed")]_vars

\* A success result with no diagnostic after a neutral event that has a null
\* thread_id and an extra field, consumed when a thread_id and agent text were known.
C19_Witness ==
    /\ apc = "returned"
    /\ result.success
    /\ err_message = ""
    /\ Len(yielded) = 3
    /\ Neutral(yielded[3])
    /\ WellShaped(yielded[3])
    /\ "usage" \in DOMAIN Event(yielded[3]).val.d

\* how many sentinels were ever enqueued
SentinelCount == Cardinality({i \in 1..Len(enqueued) : enqueued[i] = None})

PastPolling == cpc \in {"wait", "kill", "join", "drain", "done"}

\* C20: the reader enqueues the sentinel exactly once on leaving, as the last item
\* ever enqueued; the polling loop is left only on the sentinel or on a timeout with
\* the child exited and the reader finished; and when it is left on the sentinel the
\* queue is empty and the drain yields nothing.
C20_SentinelOnceAndLast ==
    /\ SentinelCount <= 1
    /\ \A i \in 1..(Len(enqueued) - 1) : enqueued[i] # None
    /\ rpc \in {"return", "done"} => (SentinelCount = 1 /\ enqueued[Len(enqueued)] = None)
    /\ rpc \in {"unstarted", "read", "terminate", "finish"} => SentinelCount = 0
    /\ PastPolling => leftBy \in {"sentinel", "timeout"}
    /\ leftBy = "timeout" => (proc = "exited" /\ rpc = "done")
    /\ leftBy = "sentinel" =>
          /\ output_queue = <<>>
          /\ drainYields = 0
          /\ rpc \in {"return", "done"}

\* The reader left on turn.completed, the polling loop on the sentinel, and the
\* generator ran to its end after two lines.
C20_Witness ==
    /\ cpc = "done"
    /\ leftBy = "sentinel"
    /\ termSent
    /\ Len(yielded) >= 2
    /\ drainYields = 0

====
